---- MODULE Spec2Model ----
(***************************************************************************)
(* Model of backend/app/main.py of the stock-advisor service:              *)
(*   - the scoring rules of the full-indicator path (_rank_symbols) and of *)
(*     the quote-only path (_minimal_from_quote),                          *)
(*   - the per-symbol loop, sort and truncation of _rank_symbols, and      *)
(*     one_recommendation on top of it,                                    *)
(*   - the TTL cache and the pagination of top_recommendations.            *)
(*                                                                         *)
(* Numbers.  Prices (close, ema, sma, atr, last price, previous close) are *)
(* integers in thousandths; band ends are in hundredths (2 decimals);      *)
(* composite scores are in tenths (1 decimal); RSI is in whole points and  *)
(* the volume spike in tenths.  A pandas/float value is a record with a    *)
(* kind: a number, NaN or +inf.  round(x, k) is modelled on the exact      *)
(* rational value with ties going to the even neighbour.                   *)
(***************************************************************************)
EXTENDS Integers, Sequences, FiniteSets, TLC

VARIABLES
    \* ---- scoring of one symbol (both paths)
    input,      \* what the provider returned for the symbol being scored
    rec,        \* the Recommendation produced from it, or NoRec
    \* ---- _rank_symbols / one_recommendation
    caller,     \* "top" (top_recommendations) or "one" (one_recommendation)
    symbols,    \* the symbol list handed to _rank_symbols
    min_bars,   \* its min_bars argument
    idx,        \* position of the for loop (next symbol to fetch)
    df,         \* provider data fetched for the last symbol, or NoData
    results,    \* the results list
    rpc,        \* "loop", "done", "raised", "returned"
    ranked_out, \* the list _rank_symbols returned
    one_out,    \* the response of one_recommendation
    \* ---- top_recommendations: cache
    clock,      \* time.time()
    cache,      \* _CACHE["data"]: cap -> entry
    pc,         \* per request thread: "idle", "check", "rank", "done"
    rcap,       \* per request thread: normalised cap (the cache key)
    now_ts,     \* per request thread: now_ts read at line 69
    ranked,     \* per request thread: the local `ranked`
    src,        \* per request thread: which branch of line 71 produced `ranked`
    \* ---- top_recommendations: pagination
    p_ranked,   \* the ranked list being paginated
    p_n,        \* requested n
    p_page,     \* requested page
    p_resp      \* the response, or NoResp

scoreVars == <<input, rec>>
rankVars  == <<caller, symbols, min_bars, idx, df, results, rpc, ranked_out, one_out>>
cacheVars == <<clock, cache, pc, rcap, now_ts, ranked, src>>
pageVars  == <<p_ranked, p_n, p_page, p_resp>>
vars == <<input, rec, caller, symbols, min_bars, idx, df, results, rpc, ranked_out,
          one_out, clock, cache, pc, rcap, now_ts, ranked, src,
          p_ranked, p_n, p_page, p_resp>>

(***************************************************************************)
(* Floats                                                                  *)
(***************************************************************************)
Num(x) == [k |-> "num", v |-> x]
NaN    == [k |-> "nan", v |-> 0]
Inf    == [k |-> "inf", v |-> 0]
None   == [k |-> "none", v |-> 0]

notna(x) == x.k # "nan"

\* a > b on floats: every comparison with NaN is False
Gt(a, b) ==
    /\ a.k # "nan" /\ b.k # "nan"
    /\ \/ a.k = "inf" /\ b.k = "num"
       \/ a.k = "num" /\ b.k = "num" /\ a.v > b.v

Max2(a, b) == IF a >= b THEN a ELSE b
Min2(a, b) == IF a <= b THEN a ELSE b
Abs(a) == IF a >= 0 THEN a ELSE 0 - a

\* round(n/d) to the nearest integer, ties to even (n >= 0, d > 0).  Python rounds
\* the binary float, so on an exact decimal tie (x.xx5) it may go either way; the
\* input sets below hold no value whose product lands on such a tie.
RoundDiv(n, d) ==
    LET q == n \div d
        r == n % d
    IN  IF 2 * r < d THEN q
        ELSE IF 2 * r > d THEN q + 1
        ELSE IF q % 2 = 0 THEN q ELSE q + 1

(***************************************************************************)
(* Recommendation records.  Kept: ticker, composite_score (tenths),        *)
(* classification, holding_duration, confidence, target_band (hundredths)  *)
(* and the path taken (the rationale/evidence strings name it).            *)
(***************************************************************************)
MkRec(sym, path, composite, classification, holding, confidence, t1, t2) ==
    [ticker |-> sym, path |-> path, composite_score |-> composite,
     classification |-> classification, holding_duration |-> holding,
     confidence |-> confidence, target_band |-> <<t1, t2>>]

\* None where a Recommendation is expected, and the slot before the call returns
NoRec      == MkRec(0, "none", 0, "", "", 0, 0, 0)
PendingRec == MkRec(0, "pending", 0, "", "", 0, 0, 0)

(***************************************************************************)
(* Full-indicator path: lines 163-225 of _rank_symbols, on the last row    *)
(* `last` of the indicator frame.                                          *)
(***************************************************************************)
\* lines 168-171
TrendCount(last) ==
    (IF Gt(last.c, last.ema20) THEN 1 ELSE 0)
    + (IF Gt(last.ema20, last.sma50) THEN 1 ELSE 0)
    + (IF notna(last.sma200) /\ Gt(last.sma50, last.sma200) THEN 1 ELSE 0)

\* lines 175-176: rsi_score = RsiBand/38 * 25
RsiBand(last) ==
    LET rsi == IF notna(last.rsi14) THEN last.rsi14.v ELSE 50
    IN  Max2(0, 38 - Abs(rsi - 62))

\* line 180
BreakoutBonus(last) == IF last.breakout50 = 1 THEN 10 ELSE 0

\* lines 181-182: vol in tenths, so (vol - 1.0)/1.5*15 = vol - 10 points
VolScore(last) ==
    LET vol == IF notna(last.vol_spike) /\ last.vol_spike.k # "inf"
               THEN last.vol_spike.v ELSE 10
    IN  Max2(0, Min2(15, vol - 10))

\* lines 186-188: vol_penalty in tenths as the fraction n/d, d a multiple of 3.
\* atr_pct = atr/c, and (0.06 - atr_pct)/0.06*10 points = 100 - 5000*atr/(3*c)
\* tenths; with the default atr_pct = 0.02 it is 200/3 tenths.
VolPenalty(last) ==
    IF notna(last.atr14) /\ last.c.v # 0
    THEN [n |-> Max2(0, Min2(300 * last.c.v, 300 * last.c.v - 5000 * last.atr14.v)),
          d |-> 3 * last.c.v]
    ELSE [n |-> 200, d |-> 3]

\* lines 166-189: tech in tenths as the fraction n/d
Tech(last) ==
    LET vp == VolPenalty(last)
    IN  [n |-> 400 * TrendCount(last) * 38 * (vp.d \div 3)
               + 250 * RsiBand(last) * vp.d
               + (10 * BreakoutBonus(last) + 10 * VolScore(last)) * 38 * vp.d
               + vp.n * 38,
         d |-> 38 * vp.d]

\* line 191: round(min(100.0, max(0.0, tech)), 1), in tenths
FullComposite(last) ==
    LET t == Tech(last)
    IN  RoundDiv(Max2(0, Min2(1000 * t.d, t.n)), t.d)

\* FullClassification with the Short-Term Blast rule tried first
FullClassification_Reordered(composite, trend) ==
    IF composite >= 700 THEN "Short-Term Blast"
    ELSE IF composite >= 720 /\ trend >= 2 THEN "Multi-Bagger"
    ELSE IF composite < 550 THEN "Avoid"
    ELSE "Neutral"

\* lines 194-200
FullClassification(composite, trend) ==
    IF composite >= 720 /\ trend >= 2 THEN "Multi-Bagger"
    ELSE IF composite >= 700 THEN "Short-Term Blast"
    ELSE IF composite < 550 THEN "Avoid"
    ELSE "Neutral"

\* lines 212-218
FullHolding(classification) ==
    IF classification = "Short-Term Blast" THEN "Short (1-30 days)"
    ELSE IF classification = "Multi-Bagger" THEN "Long (>12 months)"
    ELSE IF classification = "Avoid" THEN "N/A"
    ELSE "Medium (1-12 months)"

\* line 219: int(max(10, min(90, composite - 25 + trend * 5)))
FullConfidence(composite, trend) ==
    Max2(100, Min2(900, composite - 250 + trend * 50)) \div 10

\* lines 204-205: round(c * 1.12, 2), round(c * 1.28, 2), in hundredths
FullTarget1(c) == RoundDiv(c * 112, 1000)
FullTarget2(c) == RoundDiv(c * 128, 1000)

\* lines 163-225: the dict appended to results
FullRec(sym, last) ==
    LET trend == TrendCount(last)
        composite == FullComposite(last)
        classification == FullClassification(composite, trend)
    IN  MkRec(sym, "full", composite, classification, FullHolding(classification),
              FullConfidence(composite, trend),
              FullTarget1(last.c.v), FullTarget2(last.c.v))

(***************************************************************************)
(* Quote-only path: _minimal_from_quote, lines 235-277.  A quote `q` is    *)
(* what yf.Ticker(sym) gives: raises (the lookup throws), fast (fast_info  *)
(* is truthy), its price attributes, and hist, the closes of history().    *)
(***************************************************************************)
Truthy(x) == x.k # "none" /\ ~(x.k = "num" /\ x.v = 0)

\* Python's `a or b`
PyOr(a, b) == IF Truthy(a) THEN a ELSE b

\* lines 239-249: price
QuotePrice(q) ==
    LET p0 == IF q.fast
              THEN PyOr(PyOr(q.last_price, q.lastPrice), q.last_trade_price)
              ELSE None
    IN  IF p0.k = "none" /\ Len(q.hist) > 0
        THEN Num(q.hist[Len(q.hist)])
        ELSE p0

\* lines 240-249: prev
QuotePrev(q) ==
    LET p0 == IF q.fast
              THEN PyOr(PyOr(q.last_price, q.lastPrice), q.last_trade_price)
              ELSE None
        v0 == IF q.fast THEN PyOr(q.previous_close, q.previousClose) ELSE None
    IN  IF p0.k = "none" /\ Len(q.hist) > 1
        THEN Num(q.hist[Len(q.hist) - 1])
        ELSE v0

\* MinimalComposite without min(100.0, ...)
MinimalComposite_NoCap(price, prev) ==
    LET has == prev.k # "none" /\ prev.v # 0
        n == IF has THEN 500 * price.v ELSE 500
        d == IF has THEN prev.v ELSE 1
    IN  RoundDiv(Max2(0, Max2(100 * d, n)), d)

\* MinimalComposite without max(10.0, ...)
MinimalComposite_Floor0(price, prev) ==
    LET has == prev.k # "none" /\ prev.v # 0
        n == IF has THEN 500 * price.v ELSE 500
        d == IF has THEN prev.v ELSE 1
    IN  RoundDiv(Min2(1000 * d, Max2(0, n)), d)

\* lines 252-256, in tenths: 50 + change_pct*100*0.5 = 50*price/prev
MinimalComposite(price, prev) ==
    LET has == prev.k # "none" /\ prev.v # 0
        n == IF has THEN 500 * price.v ELSE 500
        d == IF has THEN prev.v ELSE 1
        floored == Max2(100 * d, n)
    IN  RoundDiv(Min2(1000 * d, Max2(0, floored)), d)

\* line 257
MinimalClassification(composite) ==
    IF composite < 550 THEN "Avoid"
    ELSE IF composite < 700 THEN "Neutral"
    ELSE "Short-Term Blast"

\* line 268
MinimalHolding(classification) ==
    IF classification = "Avoid" THEN "N/A" ELSE "Medium (1-12 months)"

\* lines 261-262: int(max(10, min(85, 25 + trend_bonus*5 + (composite - 50))))
MinimalConfidence(composite) ==
    Max2(100, Min2(850, 250 + (composite - 500))) \div 10

\* lines 259-260, in hundredths
MinimalTarget1(price) == RoundDiv(price * 108, 1000)
MinimalTarget2(price) == RoundDiv(price * 115, 1000)

\* lines 235-277: the dict returned, or NoRec for None
MinimalFromQuote(sym, q) ==
    IF q.raises THEN NoRec
    ELSE LET price == QuotePrice(q)
             prev == QuotePrev(q)
         IN  IF price.k = "none" THEN NoRec
             ELSE LET composite == MinimalComposite(price, prev)
                      classification == MinimalClassification(composite)
                  IN  MkRec(sym, "quote", composite, classification,
                            MinimalHolding(classification),
                            MinimalConfidence(composite),
                            MinimalTarget1(price.v), MinimalTarget2(price.v))

(***************************************************************************)
(* Provider data.  A snapshot is the last row of the indicator frame; a    *)
(* fetch is what yf.download and yf.Ticker give for one symbol.            *)
(***************************************************************************)
Snap(c, ema20, sma50, sma200, rsi14, breakout50, vol_spike, atr14) ==
    [c |-> c, ema20 |-> ema20, sma50 |-> sma50, sma200 |-> sma200, rsi14 |-> rsi14,
     breakout50 |-> breakout50, vol_spike |-> vol_spike, atr14 |-> atr14]

Quote(raises, fast, last_price, previous_close, hist) ==
    [raises |-> raises, fast |-> fast, last_price |-> last_price, lastPrice |-> None,
     last_trade_price |-> None, previous_close |-> previous_close,
     previousClose |-> None, hist |-> hist]

\* the quote lookup throws / finds nothing / finds a flat price / finds a 60% jump
QuoteRaises == Quote(TRUE, FALSE, None, None, <<>>)
QuoteEmpty  == Quote(FALSE, FALSE, None, None, <<>>)
QuoteFlat   == Quote(FALSE, TRUE, Num(1000), Num(1000), <<>>)
QuoteJump   == Quote(FALSE, FALSE, None, None, <<1000, 1600>>)

\* uptrend with all indicators defined; and a 25-bar history (no sma50/sma200)
SnapStrong == Snap(Num(1000), Num(900), Num(800), Num(700), Num(62), 1, Num(25), Num(10))
SnapShort  == Snap(Num(1000), Num(900), NaN, NaN, Num(40), 0, Num(10), Num(30))

Fetch(dl, bars, malformed, last, quote) ==
    [dl |-> dl, bars |-> bars, malformed |-> malformed, last |-> last, quote |-> quote]

NoData == Fetch("none", 0, FALSE, SnapShort, QuoteRaises)

\* every provider answer for one symbol: download throws; no bars and no quote; no
\* bars but a quote; 25 bars and no quote; full history; full history whose
\* indicator computation throws
AnyData ==
    { Fetch("raise", 0, FALSE, SnapShort, QuoteRaises),
      Fetch("frame", 0, FALSE, SnapShort, QuoteRaises),
      Fetch("frame", 0, FALSE, SnapShort, QuoteFlat),
      Fetch("frame", 25, FALSE, SnapShort, QuoteEmpty),
      Fetch("frame", 300, FALSE, SnapStrong, QuoteFlat),
      Fetch("frame", 300, TRUE, SnapStrong, QuoteFlat) }

\* the answers that yield a recommendation on either path
GoodData ==
    { Fetch("frame", 0, FALSE, SnapShort, QuoteFlat),
      Fetch("frame", 300, FALSE, SnapStrong, QuoteFlat) }

\* only the first FlakySyms symbols of a list get an answer that can fail
FlakySyms == 3

ProviderData(sym) == IF sym <= FlakySyms THEN AnyData ELSE GoodData

Quotes == {QuoteRaises, QuoteEmpty, QuoteFlat, QuoteJump}

(***************************************************************************)
(* _rank_symbols, lines 128-232                                            *)
(***************************************************************************)
\* lines 74 and 117: both callers pass allow_minimal=True
allow_minimal == TRUE

\* OnLoopException without the except clause
OnLoopException_Reraise == "raise"

\* lines 226-228: what an exception inside the loop body leads to
OnLoopException == "continue"

\* lines 143-225: the outcome of the loop body on fetched data d:
\* "raise" (an exception is thrown), "skip" (nothing appended) or "append"
BodyOutcome(sym, d, mb) ==
    IF d.dl = "raise" THEN [o |-> "raise", r |-> NoRec]
    ELSE IF d.bars = 0 \/ d.bars < mb
    THEN IF allow_minimal /\ MinimalFromQuote(sym, d.quote) # NoRec
         THEN [o |-> "append", r |-> MinimalFromQuote(sym, d.quote)]
         ELSE [o |-> "skip", r |-> NoRec]
    ELSE IF d.malformed THEN [o |-> "raise", r |-> NoRec]
    ELSE [o |-> "append", r |-> FullRec(sym, d.last)]

\* line 231: key=lambda x: x.get("composite_score", 0)
SortKey(x) == x.composite_score

\* where entry i of s stands after a stable descending sort: behind every entry
\* with a larger key and every earlier entry with the same key
SortedPos(s, i) ==
    1 + Cardinality({j \in 1..Len(s) :
                       \/ SortKey(s[j]) > SortKey(s[i])
                       \/ SortKey(s[j]) = SortKey(s[i]) /\ j < i})

\* SortDesc by an ascending sort that is then reversed: equal keys swap order
SortDesc_Unstable(s) ==
    [p \in 1..Len(s) |->
        s[CHOOSE i \in 1..Len(s) :
            1 + Cardinality({j \in 1..Len(s) :
                               \/ SortKey(s[j]) > SortKey(s[i])
                               \/ SortKey(s[j]) = SortKey(s[i]) /\ j > i}) = p]]

\* line 231: results.sort(key=..., reverse=True); list.sort is stable, and with
\* reverse=True entries with equal keys still keep their original order
SortDesc(s) ==
    [p \in 1..Len(s) |-> s[CHOOSE i \in 1..Len(s) : SortedPos(s, i) = p]]

\* line 232: results[:9]
TopNine(s) == SubSeq(s, 1, Min2(9, Len(s)))

\* lines 135-228: one iteration of the for loop, on symbols[idx]; df keeps what
\* was fetched for it
ProcessSymbol ==
    /\ rpc = "loop"
    /\ idx <= Len(symbols)
    /\ \E d \in ProviderData(symbols[idx]) :
         LET b == BodyOutcome(symbols[idx], d, min_bars)
         IN  /\ df' = d
             /\ IF b.o = "raise" /\ OnLoopException # "continue"
                THEN /\ rpc' = "raised"
                     /\ UNCHANGED <<idx, results>>
                ELSE /\ rpc' = "loop"
                     /\ idx' = idx + 1
                     /\ results' = IF b.o = "append" THEN Append(results, b.r)
                                   ELSE results
    /\ UNCHANGED <<caller, symbols, min_bars, ranked_out, one_out>>
    /\ UNCHANGED <<scoreVars, cacheVars, pageVars>>

\* lines 230-232: sort in place and return the first nine
FinishRank ==
    /\ rpc = "loop"
    /\ idx > Len(symbols)
    /\ ~(caller = "one" /\ symbols = <<>>)
    /\ LET sorted == SortDesc(results)
       IN  /\ results' = sorted
           /\ ranked_out' = TopNine(sorted)
    /\ rpc' = "done"
    /\ UNCHANGED <<caller, symbols, min_bars, idx, df, one_out>>
    /\ UNCHANGED <<scoreVars, cacheVars, pageVars>>

(***************************************************************************)
(* one_recommendation, lines 96-126                                        *)
(***************************************************************************)
OneResp(r, note) == [recommendation |-> r, note |-> note]
NoResp1 == OneResp(NoRec, "pending")

\* lines 105-107: empty ticker
OneEmpty ==
    /\ caller = "one" /\ symbols = <<>> /\ rpc = "loop"
    /\ one_out' = OneResp(NoRec, "Empty ticker")
    /\ rpc' = "returned"
    /\ UNCHANGED <<caller, symbols, min_bars, idx, df, results, ranked_out>>
    /\ UNCHANGED <<scoreVars, cacheVars, pageVars>>

\* lines 118-119
OneRanked ==
    /\ caller = "one" /\ rpc = "done" /\ ranked_out # <<>>
    /\ one_out' = OneResp(ranked_out[1], "None")
    /\ rpc' = "returned"
    /\ UNCHANGED <<caller, symbols, min_bars, idx, df, results, ranked_out>>
    /\ UNCHANGED <<scoreVars, cacheVars, pageVars>>

\* lines 123-126: a second quote lookup
OneQuote ==
    /\ caller = "one" /\ rpc = "done" /\ ranked_out = <<>>
    /\ \E q \in Quotes :
         LET m == MinimalFromQuote(symbols[1], q)
         IN  one_out' = IF m # NoRec
                        THEN OneResp(m, "Quote-only snapshot (limited data).")
                        ELSE OneResp(NoRec, "No live data available")
    /\ rpc' = "returned"
    /\ UNCHANGED <<caller, symbols, min_bars, idx, df, results, ranked_out>>
    /\ UNCHANGED <<scoreVars, cacheVars, pageVars>>

\* symbols are numbered in list order; the ticker of a symbol is its number
SymList(n) == [i \in 1..n |-> i]

MaxSyms == 10

\* top_recommendations (line 74) ranks a universe with min_bars=30;
\* one_recommendation (line 117) ranks one symbol with min_bars=20
InitRank ==
    /\ \/ /\ caller = "top"
          /\ \E n \in 0..MaxSyms : symbols = SymList(n)
          /\ min_bars = 30
       \/ /\ caller = "one"
          /\ symbols \in {SymList(0), SymList(1)}
          /\ min_bars = 20
    /\ idx = 1
    /\ df = NoData
    /\ results = <<>>
    /\ rpc = "loop"
    /\ ranked_out = <<>>
    /\ one_out = NoResp1

IdleRank ==
    /\ caller = "top" /\ symbols = <<>> /\ min_bars = 30 /\ idx = 1 /\ df = NoData
    /\ results = <<>> /\ rpc = "idle" /\ ranked_out = <<>> /\ one_out = NoResp1

NextRank ==
    \/ ProcessSymbol
    \/ FinishRank
    \/ OneEmpty
    \/ OneRanked
    \/ OneQuote

(***************************************************************************)
(* Scoring one symbol: the inputs the two paths are applied to             *)
(***************************************************************************)
Closes     == {0, 1, 1000, 10000}
Ema20s     == {500, 2000}
Sma50s     == {NaN, Num(400), Num(1500)}
Sma200s    == {NaN, Num(300), Num(1200)}
Rsis       == {NaN, Num(0), Num(24), Num(50), Num(62), Num(81), Num(100)}
VolSpikes  == {NaN, Inf, Num(0), Num(10), Num(17), Num(25), Num(40)}
Atrs       == {NaN, Num(0), Num(10), Num(60), Num(5000)}

\* sma200 is defined only on histories where sma50 is
SmaPairs == { p \in Sma50s \X Sma200s : notna(p[1]) \/ ~notna(p[2]) }

SnapInputs ==
    { Snap(Num(c), Num(e), p[1], p[2], rsi, b, vs, atr) :
        c \in Closes, e \in Ema20s, p \in SmaPairs,
        rsi \in Rsis, b \in {0, 1}, vs \in VolSpikes, atr \in Atrs }

LastPrices == {None, Num(0), Num(1), Num(200), Num(1000), Num(1600), Num(10000)}
PrevCloses == {None, Num(0), Num(3), Num(1000)}
Hists      == {<<>>, <<0>>, <<1000>>, <<1000, 1>>, <<1000, 1600>>, <<0, 1000>>}

QuoteInputs ==
    { [Quote(r, f, lp, pc0, h) EXCEPT !.last_trade_price = ltp] :
        r \in BOOLEAN, f \in BOOLEAN, lp \in LastPrices, pc0 \in PrevCloses,
        h \in Hists, ltp \in {None, Num(0)} }

InitScore ==
    /\ input \in { [kind |-> "full", last |-> l, quote |-> QuoteRaises] : l \in SnapInputs }
             \cup { [kind |-> "quote", last |-> SnapShort, quote |-> q] : q \in QuoteInputs }
    /\ rec = PendingRec

IdleScore ==
    /\ input = [kind |-> "idle", last |-> SnapShort, quote |-> QuoteRaises]
    /\ rec = PendingRec

\* lines 163-225 on one symbol's last row
ScoreFull ==
    /\ input.kind = "full" /\ rec = PendingRec
    /\ rec' = FullRec(1, input.last)
    /\ UNCHANGED input
    /\ UNCHANGED <<rankVars, cacheVars, pageVars>>

\* _minimal_from_quote on one symbol's quote
ScoreQuote ==
    /\ input.kind = "quote" /\ rec = PendingRec
    /\ rec' = MinimalFromQuote(1, input.quote)
    /\ UNCHANGED input
    /\ UNCHANGED <<rankVars, cacheVars, pageVars>>

NextScore == ScoreFull \/ ScoreQuote

(***************************************************************************)
(* top_recommendations, lines 30-93: the TTL cache.  Requests are served   *)
(* by threads (FastAPI runs a `def` endpoint in a thread pool), so the     *)
(* steps of two requests interleave.  Lines 71-72 are taken as one step.    *)
(***************************************************************************)
NumThreads == 2
Threads == 1..NumThreads

\* time.time() is read on a grid of ClockStep seconds, MaxTicks steps long
ClockStep == 450
MaxTicks == 2
ClockValues == {i * ClockStep : i \in 0..MaxTicks}

CapInputs == {"all", "SMALL", "bogus", ""}

\* str.lower() on the inputs
Lower(c) == IF c = "SMALL" THEN "small" ELSE c

\* lines 39-41
NormalizeCap(c) ==
    LET c1 == Lower(IF c = "" THEN "all" ELSE c)
    IN  IF c1 \notin {"small", "mid", "large", "all"} THEN "all" ELSE c1

CacheKeys == {NormalizeCap(c) : c \in CapInputs}

\* CacheTtl with one TTL for every key
CacheTtl_Flat(cap) == 300

\* line 68
CacheTtl(cap) == IF cap = "all" THEN 900 ELSE 300

NoEntry == [present |-> FALSE, items |-> <<>>, ts |-> 0]
Entry(items, ts) == [present |-> TRUE, items |-> items, ts |-> ts]

\* line 71: the entry exists (a non-empty dict is truthy) and is younger than the TTL
CacheHit(entry, now, cap) == entry.present /\ now - entry.ts < CacheTtl(cap)

\* line 75: the new value of _CACHE["data"]
CacheStore(c, key, items, ts) == [c EXCEPT ![key] = Entry(items, ts)]

\* what _rank_symbols may return at line 74 (recommendations named by number)
RankedLists == {<<>>, <<2, 1>>}

InitCache ==
    /\ clock = 0
    /\ cache = [k \in CacheKeys |-> NoEntry]
    /\ pc = [t \in Threads |-> "idle"]
    /\ rcap = [t \in Threads |-> "all"]
    /\ now_ts = [t \in Threads |-> 0]
    /\ ranked = [t \in Threads |-> <<>>]
    /\ src = [t \in Threads |-> "none"]

\* time passes.  A request that read now_ts before another request's entry was
\* stamped sees a negative age, so ages range over both signs.
Tick ==
    /\ clock + ClockStep \in ClockValues
    /\ clock' = clock + ClockStep
    /\ UNCHANGED <<cache, pc, rcap, now_ts, ranked, src>>
    /\ UNCHANGED <<scoreVars, rankVars, pageVars>>

\* lines 37-69: a request arrives; cap is normalised and now_ts is read
StartRequest(t) ==
    /\ pc[t] = "idle"
    /\ \E c \in CapInputs : rcap' = [rcap EXCEPT ![t] = NormalizeCap(c)]
    /\ now_ts' = [now_ts EXCEPT ![t] = clock]
    /\ pc' = [pc EXCEPT ![t] = "check"]
    /\ UNCHANGED <<clock, cache, ranked, src>>
    /\ UNCHANGED <<scoreVars, rankVars, pageVars>>

\* lines 71-73: a hit takes the stored items, and lines 77-93 build the response
\* from them (cap and now_ts are not read again); a miss goes on to _rank_symbols
CheckCache(t) ==
    /\ pc[t] = "check"
    /\ IF CacheHit(cache[rcap[t]], now_ts[t], rcap[t])
       THEN /\ ranked' = [ranked EXCEPT ![t] = cache[rcap[t]].items]
            /\ src' = [src EXCEPT ![t] = "cache"]
            /\ pc' = [pc EXCEPT ![t] = "done"]
            /\ rcap' = [rcap EXCEPT ![t] = "all"]
            /\ now_ts' = [now_ts EXCEPT ![t] = 0]
       ELSE /\ pc' = [pc EXCEPT ![t] = "rank"]
            /\ UNCHANGED <<ranked, src, rcap, now_ts>>
    /\ UNCHANGED <<clock, cache>>
    /\ UNCHANGED <<scoreVars, rankVars, pageVars>>

\* lines 74-75: _rank_symbols returns and the entry is replaced; lines 77-93 build
\* the response from the new list
RankAndStore(t) ==
    /\ pc[t] = "rank"
    /\ \E l \in RankedLists :
         /\ ranked' = [ranked EXCEPT ![t] = l]
         /\ cache' = CacheStore(cache, rcap[t], l, now_ts[t])
    /\ src' = [src EXCEPT ![t] = "computed"]
    /\ pc' = [pc EXCEPT ![t] = "done"]
    /\ rcap' = [rcap EXCEPT ![t] = "all"]
    /\ now_ts' = [now_ts EXCEPT ![t] = 0]
    /\ UNCHANGED clock
    /\ UNCHANGED <<scoreVars, rankVars, pageVars>>

\* the response has been sent; the thread is free for the next request
Respond(t) ==
    /\ pc[t] = "done"
    /\ pc' = [pc EXCEPT ![t] = "idle"]
    /\ ranked' = [ranked EXCEPT ![t] = <<>>]
    /\ src' = [src EXCEPT ![t] = "none"]
    /\ UNCHANGED <<clock, cache, rcap, now_ts>>
    /\ UNCHANGED <<scoreVars, rankVars, pageVars>>

NextCache ==
    \/ Tick
    \/ \E t \in Threads : StartRequest(t)
    \/ \E t \in Threads : CheckCache(t)
    \/ \E t \in Threads : RankAndStore(t)
    \/ \E t \in Threads : Respond(t)

(***************************************************************************)
(* top_recommendations, lines 77-93: pagination                            *)
(***************************************************************************)
\* requested n and page range over -MaxArg..MaxArg
MaxArg == 5

\* lines 78-79: max(1, min(3, x))
Clamp13(x) == Max2(1, Min2(3, x))

\* s[start:end] for 0 <= start <= end
PySlice(s, start, end) ==
    IF start >= Len(s) THEN <<>> ELSE SubSeq(s, start + 1, Min2(end, Len(s)))

\* PageItems with start = page * n
PageItems_OffByOne(list, n, page) ==
    LET start == page * n
    IN  PySlice(list, start, start + n)

\* lines 80-82
PageItems(list, n, page) ==
    LET start == (page - 1) * n
    IN  PySlice(list, start, start + n)

\* lines 78-93
Response(list, n, page) ==
    [recommendations |-> PageItems(list, Clamp13(n), Clamp13(page)),
     page |-> Clamp13(page), page_size |-> Clamp13(n), total_available |-> Len(list)]

NoResp == [recommendations |-> <<>>, page |-> 0, page_size |-> 0, total_available |-> 0]

InitPage ==
    /\ p_ranked \in {TopNine(SymList(n)) : n \in 0..MaxSyms}
    /\ p_n \in (0 - MaxArg)..MaxArg
    /\ p_page \in (0 - MaxArg)..MaxArg
    /\ p_resp = NoResp

IdlePage ==
    /\ p_ranked = <<>> /\ p_n = 3 /\ p_page = 1 /\ p_resp = NoResp

Paginate ==
    /\ p_resp = NoResp
    /\ p_resp' = Response(p_ranked, p_n, p_page)
    /\ UNCHANGED <<p_ranked, p_n, p_page>>
    /\ UNCHANGED <<scoreVars, rankVars, cacheVars>>

NextPage == Paginate

(***************************************************************************)
(* Specifications                                                          *)
(***************************************************************************)
IdleCache == InitCache

InitSpecScore == InitScore /\ IdleRank /\ IdleCache /\ IdlePage
InitSpecRank  == IdleScore /\ InitRank /\ IdleCache /\ IdlePage
InitSpecCache == IdleScore /\ IdleRank /\ InitCache /\ IdlePage
InitSpecPage  == IdleScore /\ IdleRank /\ IdleCache /\ InitPage

SpecScore == InitSpecScore /\ [][NextScore]_vars

SpecRank == InitSpecRank /\ [][NextRank]_vars

SpecCache == InitSpecCache /\ [][NextCache]_vars

SpecPage == InitSpecPage /\ [][NextPage]_vars

(***************************************************************************)
(* Claims                                                                  *)
(***************************************************************************)
Scored == rec.path \in {"full", "quote"}

\* the entry of the request's key exists and is younger than the TTL of the key
C1_Fresh(t) ==
    /\ cache[rcap[t]].present
    /\ now_ts[t] - cache[rcap[t]].ts < (IF rcap[t] = "all" THEN 900 ELSE 300)

\* what the cache check and the ranking of request t must do
C1_Step(t) ==
    /\ (pc[t] = "check" /\ pc'[t] # "check") =>
          IF C1_Fresh(t)
          THEN pc'[t] = "done" /\ ranked'[t] = cache[rcap[t]].items /\ cache' = cache
          ELSE pc'[t] = "rank" /\ cache' = cache
    /\ (pc[t] = "rank" /\ pc'[t] # "rank") =>
          /\ pc'[t] = "done"
          /\ cache'[rcap[t]] = [present |-> TRUE, items |-> ranked'[t], ts |-> now_ts[t]]
          /\ \A k \in CacheKeys \ {rcap[t]} : cache'[k] = cache[k]

\* C1: a request whose key has an entry younger than its TTL (900 s for "all", 300 s
\* for a cap bucket) returns the stored list and leaves the cache alone, without
\* ranking; any other request ranks, and the entry of its key alone is replaced by
\* the new list stamped with the request's now_ts.
C1_CacheFreshness == [][\A t \in Threads : C1_Step(t)]_vars

C1_Witness ==
    \E t \in Threads : pc[t] = "done" /\ src[t] = "cache" /\ ranked[t] = <<2, 1>>

\* C2: no two requests are inside the ranking computation for the same key at the
\* same time.
C2_SingleFlight ==
    \A t1, t2 \in Threads :
        (t1 # t2 /\ pc[t1] = "rank" /\ pc[t2] = "rank") => rcap[t1] # rcap[t2]

\* C3: composite_score of every Recommendation, of either path, is in [0,100].
C3_CompositeInRange ==
    Scored => (0 <= rec.composite_score /\ rec.composite_score <= 1000)

C3_Witness ==
    /\ rec.path = "quote" /\ rec.composite_score = 1000
    /\ QuotePrice(input.quote).v > 2 * QuotePrev(input.quote).v
    /\ QuotePrev(input.quote).v > 0

\* 50 + changePct*100*0.5 clamped into [lo,100] and rounded to one decimal, in
\* tenths, changePct being 0 unless prev is defined and nonzero
C4_Expected(lo) ==
    LET price == QuotePrice(input.quote)
        prev == QuotePrev(input.quote)
        has == prev.k = "num" /\ prev.v # 0
        n == IF has THEN 500 * prev.v + 500 * (price.v - prev.v) ELSE 500
        d == IF has THEN prev.v ELSE 1
        clamped == IF n < lo * d THEN lo * d ELSE IF n > 1000 * d THEN 1000 * d ELSE n
    IN  RoundDiv(clamped, d)

\* C4 as stated: on the quote-only path composite_score is
\* round(clamp(50 + changePct*100*0.5, 0, 100), 1), so a drop of more than 80%
\* scores below 10.
C4_QuoteCompositeFloor0 ==
    rec.path = "quote" => rec.composite_score = C4_Expected(0)

\* C4 amended: on the quote-only path composite_score is
\* round(clamp(50 + changePct*100*0.5, 10, 100), 1): the score never goes below 10.
C4_QuoteCompositeFloor10 ==
    rec.path = "quote" => rec.composite_score = C4_Expected(100)

C4_Witness ==
    /\ rec.path = "quote" /\ rec.composite_score = 100
    /\ QuotePrev(input.quote).k = "num" /\ QuotePrev(input.quote).v > 0
    /\ 10 * QuotePrice(input.quote).v < 2 * QuotePrev(input.quote).v

\* C5: in every Recommendation target_band[0] < target_band[1].
C5_BandOrdered ==
    Scored => rec.target_band[1] < rec.target_band[2]

\* the classification and holding the ordered rules give for a composite (tenths)
\* and a trend count
C6_Rules(composite, trend) ==
    IF composite >= 720 /\ trend >= 2 THEN <<"Multi-Bagger", "Long (>12 months)">>
    ELSE IF composite >= 700 THEN <<"Short-Term Blast", "Short (1-30 days)">>
    ELSE IF composite < 550 THEN <<"Avoid", "N/A">>
    ELSE <<"Neutral", "Medium (1-12 months)">>

\* composite - 25 + trend*5 clamped into [10,90], in tenths
C6_Clamped(composite, trend) ==
    LET x == composite - 250 + trend * 50
    IN  IF x < 100 THEN 100 ELSE IF x > 900 THEN 900 ELSE x

\* C6 as stated: on the full path the ordered rules give classification and
\* holding, and confidence equals composite - 25 + trend*5 clamped into [10,90].
C6_ClassifierExact ==
    rec.path = "full" =>
        /\ <<rec.classification, rec.holding_duration>>
               = C6_Rules(rec.composite_score, TrendCount(input.last))
        /\ 10 * rec.confidence = C6_Clamped(rec.composite_score, TrendCount(input.last))

\* C6 amended: as stated, but confidence is that clamped value with its fraction
\* dropped (an integer).
C6_ClassifierTruncated ==
    rec.path = "full" =>
        /\ <<rec.classification, rec.holding_duration>>
               = C6_Rules(rec.composite_score, TrendCount(input.last))
        /\ rec.confidence
               = C6_Clamped(rec.composite_score, TrendCount(input.last)) \div 10

C6_Witness ==
    /\ rec.path = "full" /\ rec.classification = "Multi-Bagger"
    /\ rec.composite_score % 10 # 0
    /\ rec.confidence < 90

\* what the step that sorts and returns must do
C7_Finish ==
    (rpc = "loop" /\ rpc' = "done") =>
        /\ Len(results') = Len(results)
        /\ {results'[i] : i \in 1..Len(results')} = {results[i] : i \in 1..Len(results)}
        /\ \A i, j \in 1..Len(results') :
              i < j =>
                /\ results'[i].composite_score >= results'[j].composite_score
                /\ results'[i].composite_score = results'[j].composite_score
                      => results'[i].ticker < results'[j].ticker
        /\ Len(ranked_out') = (IF Len(results') > 9 THEN 9 ELSE Len(results'))
        /\ \A i \in 1..Len(ranked_out') : ranked_out'[i] = results'[i]

\* C7: the sort of _rank_symbols leaves results in non-increasing score order with
\* equal scores in fetch order (tickers number the symbols in fetch order), keeping
\* every entry, and the returned list is its first 9 entries (all, if fewer).
C7_SortedTopNine == [][C7_Finish]_vars

C7_Witness ==
    /\ rpc = "done" /\ Len(results) = 10 /\ Len(ranked_out) = 9
    /\ ranked_out[1].composite_score > ranked_out[9].composite_score
    /\ ranked_out[1].ticker > ranked_out[9].ticker
    /\ ranked_out[1].composite_score = ranked_out[2].composite_score
    /\ results[10].composite_score = ranked_out[9].composite_score

\* a symbol for whose data both paths fail
C8_BothFail(sym, d, mb) ==
    /\ d.dl = "raise" \/ d.malformed \/ d.bars < mb
    /\ MinimalFromQuote(sym, d.quote) = NoRec

C8_Iteration ==
    (rpc = "loop" /\ idx <= Len(symbols) /\ rpc' # "done") =>
        /\ rpc' = "loop" /\ idx' = idx + 1
        /\ C8_BothFail(symbols[idx], df', min_bars) => results' = results
        /\ \/ results' = results
           \/ results' = Append(results, FullRec(symbols[idx], df'.last))
           \/ results' = Append(results, MinimalFromQuote(symbols[idx], df'.quote))

\* C8: every iteration of the loop, whatever the provider answers, moves on to the
\* next symbol (so the loop ends after Len(symbols) iterations); a symbol for which
\* both paths fail leaves the results as they were, any other appends at most its
\* own recommendation, computed from its own data; nothing is raised, and the pass
\* returns only after it has gone through every symbol.
C8_NoAbort ==
    /\ [][C8_Iteration]_vars
    /\ [](rpc # "raised")
    /\ [](rpc = "loop" => idx <= Len(symbols) + 1)
    /\ [](rpc = "done" => idx = Len(symbols) + 1)

C8_Witness ==
    /\ rpc = "done" /\ caller = "top" /\ Len(symbols) = 3
    /\ Len(results) = 1 /\ results[1].ticker = 2
    /\ df.dl = "raise"

\* max(1, min(3, x))
C9_Clamp(x) == IF x < 1 THEN 1 ELSE IF x > 3 THEN 3 ELSE x

RECURSIVE C9_Concat(_, _, _)
\* pages 1..k of size n of list, in order
C9_Concat(list, n, k) ==
    IF k = 0 THEN <<>>
    ELSE C9_Concat(list, n, k - 1) \o Response(list, n, k).recommendations

\* C9: the page size s and page number p are n and page clamped into [1,3]; the
\* page holds the items at positions (p-1)*s+1 .. (p-1)*s+s of the ranked list
\* that exist (none beyond its end); it shares no item with another page of the
\* same size; pages 1..p in order are the first p*s items of the list.
C9_Pagination ==
    p_resp # NoResp =>
        LET s == C9_Clamp(p_n)
            p == C9_Clamp(p_page)
            first == (p - 1) * s
            items == p_resp.recommendations
            count == IF Len(p_ranked) <= first THEN 0
                     ELSE IF Len(p_ranked) >= first + s THEN s
                     ELSE Len(p_ranked) - first
        IN  /\ p_resp.page_size = s /\ p_resp.page = p
            /\ Len(items) = count
            /\ \A i \in 1..count : items[i] = p_ranked[first + i]
            /\ \A q \in 1..3 :
                  q # p => {items[i] : i \in 1..count}
                           \cap {Response(p_ranked, p_n, q).recommendations[i] :
                                   i \in 1..Len(Response(p_ranked, p_n, q).recommendations)}
                           = {}
            /\ C9_Concat(p_ranked, p_n, p)
                  = SubSeq(p_ranked, 1, IF Len(p_ranked) < p * s THEN Len(p_ranked) ELSE p * s)

C9_Witness ==
    /\ p_resp # NoResp /\ p_page > 3 /\ p_n > 3 /\ Len(p_ranked) = 4
    /\ p_resp.recommendations = <<>> /\ p_resp.total_available = 4

\* C10: holding_duration is determined by classification, the same on both paths.
C10_HoldingByClass ==
    Scored =>
        rec.holding_duration =
            (IF rec.classification = "Short-Term Blast" THEN "Short (1-30 days)"
             ELSE IF rec.classification = "Multi-Bagger" THEN "Long (>12 months)"
             ELSE IF rec.classification = "Avoid" THEN "N/A"
             ELSE "Medium (1-12 months)")

====
